---- MODULE Spec2Model ----
(***************************************************************************)
(* Process supervision of miraclecast-gui.py: the registry self.processes, *)
(* the start/stop handlers of the two roles, run_command, the exit         *)
(* handler process_finished and cleanup_on_exit, together with the         *)
(* QProcess objects and the OS processes they stand for.                   *)
(*                                                                         *)
(* The GUI is one thread: a handler runs to completion before the event    *)
(* loop delivers anything else, but it blocks in waitForFinished and       *)
(* waitForStarted, and the OS processes go on running meanwhile.  pc is    *)
(* the position of the GUI thread; a handler is a chain of steps, one per  *)
(* blocking wait, and each step is the only step of the GUI thread that is *)
(* enabled at its position.                                                *)
(***************************************************************************)
EXTENDS Integers, Sequences, FiniteSets

\* Bound of the model: the QProcess objects created in one run.
MaxProcs == 2

\* Timeouts of the source, in seconds.
GraceSecs == 3
CleanupSecs == 2
StartSecs == 5

Roles == {"sink", "source"}
Procs == 1..MaxProcs
\* The exit codes: the source tells zero from non-zero only.
ExitCodes == {0, 2}
Statuses == {"Not Running", "Running", "Start Failed", "Error"}

VARIABLES
  processes,   \* self.processes: the dict, as its items in insertion order
  status,      \* the text of sink_status_label / source_status_label
  nproc,       \* QProcess objects created so far; object ids are 1..nproc
  pname,       \* per object: the process_name its signal lambdas captured
  qstate,      \* per object: QProcess.state()
  os,          \* per object: its OS process: none, alive, exited (not yet
               \* noticed by Qt), reaped
  code,        \* per object: the exit code of its OS process
  termReq,     \* per object: terminate() has sent the graceful request
  killReq,     \* per object: kill() has sent the forced kill
  pc,          \* position of the GUI thread
  cur,         \* the process_name argument of the handler in progress
  proc,        \* the local variable process of the handler in progress
  elapsed,     \* seconds spent in the blocking wait in progress
  idx,         \* cleanup_on_exit: position in self.processes.items()
  last,        \* per role: the last operation invoked and how it ended
  cleanups,    \* the number of times atexit has called cleanup_on_exit
  systemctl    \* the ['sudo', 'systemctl', action, service_name] command
               \* that subprocess.run is running: <<action, service_name>>,
               \* or << >> when none is

vars == <<processes, status, nproc, pname, qstate, os, code, termReq, killReq,
          pc, cur, proc, elapsed, idx, last, cleanups, systemctl>>

----------------------------------------------------------------------------
\* The dict self.processes.

Has(d, k) == \E i \in 1..Len(d) : d[i].name = k

Get(d, k) == d[CHOOSE i \in 1..Len(d) : d[i].name = k].process

Put(d, k, v) ==
  IF Has(d, k)
  THEN [i \in 1..Len(d) |-> IF d[i].name = k THEN [name |-> k, process |-> v] ELSE d[i]]
  ELSE Append(d, [name |-> k, process |-> v])

PopSkip(d, k) == d

Pop(d, k) == SelectSeq(d, LAMBDA e : e.name # k)

----------------------------------------------------------------------------
\* QProcess.

\* terminate(): the graceful request goes to the OS process of an object
\* that is not NotRunning.
Terminate(tr, p) == IF qstate[p] # "NotRunning" THEN [tr EXCEPT ![p] = TRUE] ELSE tr

\* kill(): the same for the forced kill.
Kill(kr, p) == IF qstate[p] # "NotRunning" THEN [kr EXCEPT ![p] = TRUE] ELSE kr

\* How waitForFinished(limit) on object p can return in the current state:
\*   "notrunning"  p is already NotRunning: False at once
\*   "finished"    the OS process has exited: finished is emitted, True
\*   "timeout"     the OS process is alive after limit seconds: False
WaitOutcomes(p, limit) ==
  IF qstate[p] = "NotRunning" THEN {"notrunning"}
  ELSE IF os[p] = "exited" THEN {"finished"}
  ELSE IF elapsed = limit THEN {"timeout"}
  ELSE {}

----------------------------------------------------------------------------
\* process_finished(process_name, exit_code, exit_status): the new labels.

process_finished_ignores_code(st, process_name, exit_code) ==
  [st EXCEPT ![process_name] = "Not Running"]

process_finished_wrong_label(st, process_name, exit_code) ==
  LET other == IF process_name = "sink" THEN "source" ELSE "sink" IN
  IF exit_code # 0
  THEN [st EXCEPT ![other] = "Error"]
  ELSE [st EXCEPT ![other] = "Not Running"]

process_finished(st, process_name, exit_code) ==
  IF exit_code # 0
  THEN [st EXCEPT ![process_name] = "Error"]
  ELSE [st EXCEPT ![process_name] = "Not Running"]

\* The labels after waitForFinished on p returned with outcome o: finished
\* is emitted, and its slot runs, inside the wait.
AfterWaitStatus(p, o) ==
  IF o = "finished" THEN process_finished(status, pname[p], code[p]) ELSE status

AfterWaitQState(p, o) ==
  IF o = "finished" THEN [qstate EXCEPT ![p] = "NotRunning"] ELSE qstate

AfterWaitOs(p, o) ==
  IF o = "finished" THEN [os EXCEPT ![p] = "reaped"] ELSE os

AfterWaitKillAlways(p, o) == Kill(killReq, p)

\* if not process.waitForFinished(..): process.kill()
AfterWaitKill(p, o) == IF o = "finished" THEN killReq ELSE Kill(killReq, p)

----------------------------------------------------------------------------
Init ==
  /\ processes = << >>
  /\ status = [r \in Roles |-> "Not Running"]
  /\ nproc = 0
  /\ pname = [p \in Procs |-> "-"]
  /\ qstate = [p \in Procs |-> "NotRunning"]
  /\ os = [p \in Procs |-> "none"]
  /\ code = [p \in Procs |-> 0]
  /\ termReq = [p \in Procs |-> FALSE]
  /\ killReq = [p \in Procs |-> FALSE]
  /\ pc = "idle"
  /\ cur = "-"
  /\ proc = 0
  /\ elapsed = 0
  /\ idx = 0
  /\ last = [r \in Roles |-> "none"]
  /\ cleanups = 0
  /\ systemctl = << >>

----------------------------------------------------------------------------
\* build_universal_cmd(mode): None when the source parameters are rejected.
build_universal_cmd(mode, paramsOK) ==
  IF mode = "source" /\ ~paramsOK THEN "None" ELSE "cmd"

\* start_sink_service / start_source_service up to the first blocking wait
\* of run_command: the interface check, build_universal_cmd, run_command's
\* check of cmd, and terminate() on a process already in the registry.
start_service(r, ifaceSelected, paramsOK) ==
  /\ pc = "idle"
  /\ IF ~ifaceSelected
     THEN UNCHANGED vars
     ELSE IF build_universal_cmd(r, paramsOK) = "None"
     THEN /\ pc' = "start_return"
          /\ cur' = r
          /\ last' = [last EXCEPT ![r] = "invalid_cmd"]
          /\ UNCHANGED <<processes, status, nproc, pname, qstate, os, code,
                         termReq, killReq, proc, elapsed, idx>>
     ELSE /\ nproc < MaxProcs
          /\ cur' = r
          /\ last' = [last EXCEPT ![r] = "start"]
          /\ IF Has(processes, r)
             THEN /\ proc' = Get(processes, r)
                  /\ termReq' = Terminate(termReq, Get(processes, r))
                  /\ pc' = "run_wait_old"
             ELSE /\ pc' = "run_launch"
                  /\ UNCHANGED <<proc, termReq>>
          /\ UNCHANGED <<processes, status, nproc, pname, qstate, os, code,
                         killReq, elapsed, idx>>
  /\ UNCHANGED <<cleanups, systemctl>>

start_sink_service == \E i \in BOOLEAN : start_service("sink", i, TRUE)

start_source_service == \E i, ok \in BOOLEAN : start_service("source", i, ok)

\* run_command: process.waitForFinished(3000) on the old process returns,
\* and kill() follows when it returned False.
run_command_wait_old ==
  /\ pc = "run_wait_old"
  /\ \E o \in WaitOutcomes(proc, GraceSecs) :
       /\ status' = AfterWaitStatus(proc, o)
       /\ qstate' = AfterWaitQState(proc, o)
       /\ os' = AfterWaitOs(proc, o)
       /\ killReq' = AfterWaitKill(proc, o)
  /\ pc' = "run_launch"
  /\ proc' = 0
  /\ elapsed' = 0
  /\ UNCHANGED <<processes, nproc, pname, code, termReq, cur, idx, last>>
  /\ UNCHANGED <<cleanups, systemctl>>

\* run_command: a new QProcess is created and registered, its signals are
\* connected, and process.start() forks the child; or start() raises and the
\* except branch pops the entry.
run_command_launch ==
  /\ pc = "run_launch"
  /\ LET p == nproc + 1 IN
       /\ nproc' = p
       /\ pname' = [pname EXCEPT ![p] = cur]
       /\ \/ /\ processes' = Put(processes, cur, p)
             /\ qstate' = [qstate EXCEPT ![p] = "Starting"]
             /\ os' = [os EXCEPT ![p] = "alive"]
             /\ proc' = p
             /\ pc' = "run_wait_started"
             /\ UNCHANGED last
          \/ /\ processes' = Pop(Put(processes, cur, p), cur)
             /\ last' = [last EXCEPT ![cur] = "raised"]
             /\ pc' = "start_return"
             /\ UNCHANGED <<qstate, os, proc>>
  /\ UNCHANGED <<status, code, termReq, killReq, cur, elapsed, idx>>
  /\ UNCHANGED <<cleanups, systemctl>>

\* run_command: process.waitForStarted(5000) returns: True once the child
\* runs the program; False when the program could not be executed or when
\* five seconds have passed, and then the entry is popped and the label is
\* set to "Start Failed".  A process whose start timed out is left as it is.
run_command_wait_started ==
  /\ pc = "run_wait_started"
  /\ \/ /\ os[proc] \in {"alive", "exited"}
        /\ qstate' = [qstate EXCEPT ![proc] = "Running"]
        /\ last' = [last EXCEPT ![cur] = "started"]
        /\ UNCHANGED <<processes, status, os>>
     \/ /\ os[proc] = "alive"
        /\ qstate' = [qstate EXCEPT ![proc] = "NotRunning"]
        /\ os' = [os EXCEPT ![proc] = "none"]
        /\ processes' = Pop(processes, cur)
        /\ status' = [status EXCEPT ![cur] = "Start Failed"]
        /\ last' = [last EXCEPT ![cur] = "failed"]
     \/ /\ os[proc] = "alive"
        /\ elapsed = StartSecs
        /\ processes' = Pop(processes, cur)
        /\ status' = [status EXCEPT ![cur] = "Start Failed"]
        /\ last' = [last EXCEPT ![cur] = "timeout"]
        /\ UNCHANGED <<qstate, os>>
  /\ pc' = "start_return"
  /\ proc' = 0
  /\ elapsed' = 0
  /\ UNCHANGED <<nproc, pname, code, termReq, killReq, cur, idx>>
  /\ UNCHANGED <<cleanups, systemctl>>

\* start_*_service after run_command returned: the label is set to "Running".
start_service_return ==
  /\ pc = "start_return"
  /\ status' = [status EXCEPT ![cur] = "Running"]
  /\ pc' = "idle"
  /\ cur' = "-"
  /\ UNCHANGED <<processes, nproc, pname, qstate, os, code, termReq, killReq,
                 proc, elapsed, idx, last>>
  /\ UNCHANGED <<cleanups, systemctl>>

----------------------------------------------------------------------------
\* stop_sink_service / stop_source_service up to waitForFinished: nothing
\* happens for a role that is not a key of self.processes; otherwise
\* terminate() is sent to the registered process.
stop_service_unguarded(r) ==
  /\ pc = "idle"
  /\ IF Has(processes, r)
     THEN /\ proc' = Get(processes, r)
          /\ termReq' = Terminate(termReq, Get(processes, r))
          /\ pc' = "stop_wait"
          /\ cur' = r
          /\ last' = [last EXCEPT ![r] = "stop"]
          /\ UNCHANGED status
     ELSE /\ last' = [last EXCEPT ![r] = "stop_noop"]
          /\ status' = [status EXCEPT ![r] = "Not Running"]
          /\ UNCHANGED <<proc, termReq, pc, cur>>
  /\ UNCHANGED <<processes, nproc, pname, qstate, os, code, killReq,
                 elapsed, idx>>
  /\ UNCHANGED <<cleanups, systemctl>>

stop_service(r) ==
  /\ pc = "idle"
  /\ IF Has(processes, r)
     THEN /\ proc' = Get(processes, r)
          /\ termReq' = Terminate(termReq, Get(processes, r))
          /\ pc' = "stop_wait"
          /\ cur' = r
          /\ last' = [last EXCEPT ![r] = "stop"]
     ELSE /\ last' = [last EXCEPT ![r] = "stop_noop"]
          /\ UNCHANGED <<proc, termReq, pc, cur>>
  /\ UNCHANGED <<processes, status, nproc, pname, qstate, os, code, killReq,
                 elapsed, idx>>
  /\ UNCHANGED <<cleanups, systemctl>>

stop_sink_service == stop_service("sink")

stop_source_service == stop_service("source")

\* stop_*_service: waitForFinished(3000) returns, kill() follows when it
\* returned False, and the label is set to "Not Running".
stop_service_wait ==
  /\ pc = "stop_wait"
  /\ \E o \in WaitOutcomes(proc, GraceSecs) :
       /\ status' = [AfterWaitStatus(proc, o) EXCEPT ![cur] = "Not Running"]
       /\ qstate' = AfterWaitQState(proc, o)
       /\ os' = AfterWaitOs(proc, o)
       /\ killReq' = AfterWaitKill(proc, o)
  /\ pc' = "idle"
  /\ cur' = "-"
  /\ proc' = 0
  /\ elapsed' = 0
  /\ UNCHANGED <<processes, nproc, pname, code, termReq, idx, last>>
  /\ UNCHANGED <<cleanups, systemctl>>

----------------------------------------------------------------------------
\* The event loop, which runs only between handlers.

\* The finished signal of a process whose exit Qt notices in the event loop:
\* the lambda connected in run_command calls process_finished.
finished_event(p) ==
  /\ pc = "idle"
  /\ qstate[p] = "Running"
  /\ os[p] = "exited"
  /\ qstate' = [qstate EXCEPT ![p] = "NotRunning"]
  /\ os' = [os EXCEPT ![p] = "reaped"]
  /\ status' = process_finished(status, pname[p], code[p])
  /\ UNCHANGED <<processes, nproc, pname, code, termReq, killReq, pc, cur,
                 proc, elapsed, idx, last>>
  /\ UNCHANGED <<cleanups, systemctl>>

\* The startup notification of a process whose waitForStarted timed out:
\* it runs the program after all, or it could not be executed.
startup_event(p) ==
  /\ pc = "idle"
  /\ qstate[p] = "Starting"
  /\ \/ /\ qstate' = [qstate EXCEPT ![p] = "Running"]
        /\ UNCHANGED os
     \/ /\ os[p] = "alive"
        /\ qstate' = [qstate EXCEPT ![p] = "NotRunning"]
        /\ os' = [os EXCEPT ![p] = "none"]
  /\ UNCHANGED <<processes, status, nproc, pname, code, termReq, killReq, pc,
                 cur, proc, elapsed, idx, last>>
  /\ UNCHANGED <<cleanups, systemctl>>

----------------------------------------------------------------------------
\* The environment.

\* An OS process exits, by itself or on a signal, with any exit code.
process_exits(p, c) ==
  /\ os[p] = "alive"
  /\ os' = [os EXCEPT ![p] = "exited"]
  /\ code' = [code EXCEPT ![p] = c]
  /\ UNCHANGED <<processes, status, nproc, pname, qstate, termReq, killReq,
                 pc, cur, proc, elapsed, idx, last>>
  /\ UNCHANGED <<cleanups, systemctl>>

\* The limit of the blocking wait at each position of the GUI thread.
WaitLimit(at) ==
  CASE at = "run_wait_old" -> GraceSecs
    [] at = "stop_wait" -> GraceSecs
    [] at = "run_wait_started" -> StartSecs
    [] at = "cleanup_wait" -> CleanupSecs
    [] OTHER -> 0

\* A second passes while the GUI thread is blocked in a wait.
tick ==
  /\ elapsed < WaitLimit(pc)
  /\ elapsed' = elapsed + 1
  /\ UNCHANGED <<processes, status, nproc, pname, qstate, os, code, termReq,
                 killReq, pc, cur, proc, idx, last>>
  /\ UNCHANGED <<cleanups, systemctl>>

----------------------------------------------------------------------------
\* sys.exit(app.exec_()): the event loop ends and atexit runs
\* cleanup_on_exit.
app_exit ==
  /\ pc = "idle"
  /\ pc' = "cleanup"
  /\ idx' = 1
  /\ UNCHANGED <<processes, status, nproc, pname, qstate, os, code, termReq,
                 killReq, cur, proc, elapsed, last>>
  /\ cleanups' = cleanups + 1
  /\ UNCHANGED systemctl

\* cleanup_on_exit: the next item of self.processes.items(); terminate()
\* for a process that is not NotRunning.
cleanup_on_exit ==
  /\ pc = "cleanup"
  /\ IF idx > Len(processes)
     THEN /\ pc' = "exited"
          /\ idx' = 0
          /\ UNCHANGED <<proc, termReq>>
     ELSE LET p == processes[idx].process IN
          IF qstate[p] # "NotRunning"
          THEN /\ termReq' = Terminate(termReq, p)
               /\ proc' = p
               /\ pc' = "cleanup_wait"
               /\ UNCHANGED idx
          ELSE /\ idx' = idx + 1
               /\ UNCHANGED <<proc, termReq, pc>>
  /\ UNCHANGED <<processes, status, nproc, pname, qstate, os, code, killReq,
                 cur, elapsed, last>>
  /\ UNCHANGED <<cleanups, systemctl>>

\* cleanup_on_exit: waitForFinished(2000) returns; kill() when it returned
\* False.
cleanup_on_exit_wait ==
  /\ pc = "cleanup_wait"
  /\ \E o \in WaitOutcomes(proc, CleanupSecs) :
       /\ status' = AfterWaitStatus(proc, o)
       /\ qstate' = AfterWaitQState(proc, o)
       /\ os' = AfterWaitOs(proc, o)
       /\ killReq' = AfterWaitKill(proc, o)
  /\ pc' = "cleanup"
  /\ idx' = idx + 1
  /\ proc' = 0
  /\ elapsed' = 0
  /\ UNCHANGED <<processes, nproc, pname, code, termReq, cur, last>>
  /\ UNCHANGED <<cleanups, systemctl>>

----------------------------------------------------------------------------
Next ==
  \/ start_sink_service
  \/ start_source_service
  \/ run_command_wait_old
  \/ run_command_launch
  \/ run_command_wait_started
  \/ start_service_return
  \/ stop_sink_service
  \/ stop_source_service
  \/ stop_service_wait
  \/ \E p \in Procs : finished_event(p)
  \/ \E p \in Procs : startup_event(p)
  \/ \E p \in Procs, c \in ExitCodes : process_exits(p, c)
  \/ tick
  \/ app_exit
  \/ cleanup_on_exit
  \/ cleanup_on_exit_wait

Spec == Init /\ [][Next]_vars

TypeOK ==
  /\ nproc \in 0..MaxProcs
  /\ status \in [Roles -> Statuses]
  /\ qstate \in [Procs -> {"NotRunning", "Starting", "Running"}]
  /\ os \in [Procs -> {"none", "alive", "exited", "reaped"}]
  /\ code \in [Procs -> ExitCodes]
  /\ \A i \in 1..Len(processes) : processes[i].process \in 1..nproc
  /\ cleanups \in 0..1
  /\ Len(systemctl) \in {0, 2}

----------------------------------------------------------------------------
\* An unhandled exception in a slot of the UI layer (for one, command_exists
\* raising FileNotFoundError inside check_dependencies, which a QTimer runs):
\* no sys.excepthook is installed, so either the traceback is printed and the
\* event loop goes on, or PyQt5 (5.5 and later) calls qFatal() and the
\* interpreter is aborted, and the atexit functions are not run.
ui_error ==
  /\ pc = "idle"
  /\ \/ UNCHANGED vars
     \/ /\ pc' = "aborted"
        /\ UNCHANGED <<processes, status, nproc, pname, qstate, os, code,
                       termReq, killReq, cur, proc, elapsed, idx, last,
                       cleanups, systemctl>>

\* The application with the ways it can exit: app_exit is the return of
\* app.exec_() (the last window closed, or quit), ui_error the unhandled error.
NextExit == Next \/ ui_error

SpecExit == Init /\ [][NextExit]_vars

----------------------------------------------------------------------------
\* manage_service.  Service names are sequences of characters.

LowerCase == {"a", "b", "c", "d", "e", "f", "g", "h", "i", "j", "k", "l", "m", "n", "o", "p", "q", "r", "s", "t", "u", "v", "w", "x", "y", "z"}
UpperCase == {"A", "B", "C", "D", "E", "F", "G", "H", "I", "J", "K", "L", "M", "N", "O", "P", "Q", "R", "S", "T", "U", "V", "W", "X", "Y", "Z"}
Digits == {"0", "1", "2", "3", "4", "5", "6", "7", "8", "9"}

\* The character class [a-zA-Z0-9_.-].
SafeChars == LowerCase \cup UpperCase \cup Digits \cup {"_", ".", "-"}

\* re.match(r'^[a-zA-Z0-9_.-]+$', service_name): one or more characters of
\* the class up to the end, where $ also matches before a final newline.
re_match(service_name) ==
  LET n == Len(service_name)
      m == IF n > 0 /\ service_name[n] = "\n" THEN n - 1 ELSE n
  IN /\ m >= 1
     /\ \A i \in 1..m : service_name[i] \in SafeChars

NetworkManager == <<"N", "e", "t", "w", "o", "r", "k", "M", "a", "n", "a", "g", "e", "r">>
wpa_supplicant == <<"w", "p", "a", "_", "s", "u", "p", "p", "l", "i", "c", "a", "n", "t">>
network_manager == <<"n", "e", "t", "w", "o", "r", "k", "-", "m", "a", "n", "a", "g", "e", "r">>

allowed_services == {NetworkManager, wpa_supplicant, network_manager}

service_allowed_any(service_name) == TRUE

\* not (service_name not in allowed_services)
service_allowed(service_name) == service_name \in allowed_services

\* The service names manage_service is called with: the allowed ones, a safe
\* name that is not allowed, names with unsafe characters, the empty name,
\* and an allowed name followed by a newline.
ServiceNames ==
  allowed_services \cup
  { <<"s", "s", "h", "d">>, <<"x", ";", " ", "r", "e", "b", "o", "o", "t">>, <<".", ".", "/", "s", "s", "h", "d">>, << >>, <<"N", "e", "t", "w", "o", "r", "k", "M", "a", "n", "a", "g", "e", "r", "\n">> }

\* manage_service up to subprocess.run: the name is checked against the
\* pattern, then against allowed_services, and only then is the command run;
\* subprocess.run may raise, which the except branch reports.
manage_service(service_name, start) ==
  /\ pc = "idle"
  /\ IF ~re_match(service_name) THEN UNCHANGED vars
     ELSE IF ~service_allowed(service_name) THEN UNCHANGED vars
     ELSE \/ /\ systemctl' = <<IF start THEN "start" ELSE "stop", service_name>>
             /\ pc' = "manage_wait"
             /\ UNCHANGED <<processes, status, nproc, pname, qstate, os, code,
                            termReq, killReq, cur, proc, elapsed, idx, last,
                            cleanups>>
          \/ UNCHANGED vars

\* manage_service: subprocess.run has returned; the result is logged, and
\* shown as an error when the return code is not zero.
manage_service_return ==
  /\ pc = "manage_wait"
  /\ systemctl' = << >>
  /\ pc' = "idle"
  /\ UNCHANGED <<processes, status, nproc, pname, qstate, os, code, termReq,
                 killReq, cur, proc, elapsed, idx, last, cleanups>>

\* The application with the service buttons.
NextInput ==
  \/ Next
  \/ \E n \in ServiceNames, start \in BOOLEAN : manage_service(n, start)
  \/ manage_service_return

SpecInput == Init /\ [][NextInput]_vars

----------------------------------------------------------------------------
\* The claims.

LaunchFailures == {"failed", "timeout", "raised"}

\* The object registered for role r.
Registered(r, p) == Has(processes, r) /\ Get(processes, r) = p

\* An OS process that is alive and to which no forced kill has been sent: a
\* process is counted as gone from the moment kill() is called on it.
Survives(p) == os[p] = "alive" /\ ~killReq[p]

\* The exit of p was handled and neither terminate() nor kill() was ever
\* sent to it: it exited on its own.
ExitedOnItsOwn(p) == os[p] = "reaped" /\ ~termReq[p] /\ ~killReq[p]

\* C1: for each role at most one OS process launched for that role is alive
\* in any reachable state; a start launches the new process only after the
\* previous one has exited.
C1_OneLiveProcessPerRole ==
  \A r \in Roles : Cardinality({p \in Procs : pname[p] = r /\ Survives(p)}) <= 1

\* C2: when stop has completed on a role with a registered process, the
\* registry no longer contains the role.
C2_StopRemovesEntry ==
  \A r \in Roles : (pc = "idle" /\ last[r] = "stop") => ~Has(processes, r)

\* C3: after stop on a role with a registered process the status of the role
\* is "Not Running", and stays so until the next start of the role, also
\* after the exit notification of the stopped process.
C3_StopLeavesNotRunning ==
  \A r \in Roles : (pc = "idle" /\ last[r] = "stop") => status[r] = "Not Running"

\* C4: when a start whose launch failed (startup timeout, failure to execute,
\* exception) has returned, the status of the role is "Start Failed".
C4_FailedStartReportsStartFailed ==
  \A r \in Roles :
    (pc = "idle" /\ last[r] \in LaunchFailures) => status[r] = "Start Failed"

\* C5 as amended: from the moment the failure of a launch is detected, and
\* until the next start of the role, the registry does not contain the role.
C5_FailedStartLeavesNoEntry ==
  \A r \in Roles : last[r] \in LaunchFailures => ~Has(processes, r)

C5_Witness ==
  \E r \in Roles :
    /\ pc = "idle"
    /\ last[r] = "timeout"
    /\ ~Has(processes, r)
    /\ \E p \in Procs : pname[p] = r /\ qstate[p] = "Starting"

\* C5 as stated: the registry never contains the role as a result of a
\* start whose launch fails, for a role that had no entry before (here: the
\* first process ever created for the role): not even while the start waits
\* for the launch to fail.
C5_NeverContainsRole ==
  [][(/\ pc = "run_wait_started"
      /\ last'[cur] \in LaunchFailures
      /\ \A q \in 1..nproc : pname[q] = cur => q = proc)
     => ~Has(processes, cur)]_vars

\* C6: when a registered process has exited on its own and its exit has been
\* handled, the registry no longer holds it.
C6_OwnExitRemovesEntry ==
  \A p \in Procs : ExitedOnItsOwn(p) => ~Registered(pname[p], p)

\* C7: the exit of a process that exited on its own is handled by the event
\* loop between handlers, hence after the start that launched it has written
\* "Running", and the handling leaves the status of its role "Not Running"
\* for exit code 0 and "Error" for any other.
C7_OwnExitSetsStatus ==
  [][\A p \in Procs :
       (qstate[p] = "Running" /\ qstate'[p] = "NotRunning"
          /\ ~termReq[p] /\ ~killReq[p])
       => /\ pc = "idle"
          /\ pc' = "idle"
          /\ status'[pname[p]] = (IF code[p] = 0 THEN "Not Running" ELSE "Error")]_vars

C7_Witness ==
  \E p \in Procs :
    /\ pc = "idle"
    /\ ExitedOnItsOwn(p)
    /\ code[p] = 2
    /\ last[pname[p]] = "started"
    /\ Registered(pname[p], p)
    /\ status[pname[p]] = "Error"

\* C8: stop on a role with no entry in the registry changes neither the
\* registry, nor any status, nor any process, sends no termination or kill
\* request, and returns at once.
C8_StopWithoutEntryIsNoOp ==
  [][\A r \in Roles :
       (last[r] # "stop_noop" /\ last'[r] = "stop_noop")
       => /\ ~Has(processes, r)
          /\ pc' = "idle"
          /\ UNCHANGED <<processes, status, nproc, pname, qstate, os, code,
                         termReq, killReq>>]_vars

C8_Witness ==
  \E r \in Roles :
    /\ pc = "idle"
    /\ last[r] = "stop_noop"
    /\ ~Has(processes, r)
    /\ status[r] = "Running"

\* C9: once a stop of a role has returned, no OS process ever launched for
\* the role is alive.
C9_NoOrphanAfterStop ==
  \A r \in Roles :
    (pc = "idle" /\ last[r] \in {"stop", "stop_noop"})
    => \A p \in Procs : pname[p] = r => ~Survives(p)

\* C10: when cleanup_on_exit has finished, no process launched by the
\* supervisor is alive.
C10_NoProcessSurvivesShutdown ==
  pc = "exited" => \A p \in Procs : ~Survives(p)

\* C12: in stop and in the stop-before-restart step of start the forced kill
\* is sent only to a process that was sent the graceful request before and
\* that is still alive when the grace period of GraceSecs has elapsed; and
\* the wait never lasts longer than the grace period: in every state of the
\* wait either time can still pass or the wait returns.
C12_GracefulThenForcedBounded ==
  [][/\ \A p \in Procs :
          (pc \in {"stop_wait", "run_wait_old"} /\ killReq'[p] /\ ~killReq[p])
          => /\ p = proc
             /\ termReq[p]
             /\ os[p] = "alive"
             /\ elapsed = GraceSecs
     /\ pc' \in {"stop_wait", "run_wait_old"}
          => /\ termReq'[proc'] \/ qstate'[proc'] = "NotRunning"
             /\ elapsed' <= GraceSecs
             /\ elapsed' < GraceSecs \/ WaitOutcomes(proc, GraceSecs)' # {}]_vars

C12_Witness ==
  \E r \in Roles :
    /\ pc = "run_launch"
    /\ cur = r
    /\ Has(processes, r)
    /\ termReq[Get(processes, r)]
    /\ killReq[Get(processes, r)]
    /\ os[Get(processes, r)] = "alive"

\* C13: a step of a handler of one role, and an event of a process of one
\* role, changes the registry entry, the status and the processes of that
\* role only.
EntryOf(d, r) == IF Has(d, r) THEN Get(d, r) ELSE 0

Changed(r) ==
  \/ status'[r] # status[r]
  \/ EntryOf(processes', r) # EntryOf(processes, r)
  \/ \E p \in Procs :
       /\ pname[p] = r \/ pname'[p] = r
       /\ <<pname[p], qstate[p], os[p], code[p], termReq[p], killReq[p]>>
            # <<pname'[p], qstate'[p], os'[p], code'[p], termReq'[p], killReq'[p]>>

HandlerSteps == {"run_wait_old", "run_launch", "run_wait_started", "start_return",
                 "stop_wait"}

\* The role of the start or stop handler that takes the step, if one does.
Acting ==
  IF pc \in HandlerSteps /\ pc' # pc THEN cur
  ELSE IF pc = "idle" /\ pc' \in HandlerSteps THEN cur'
  ELSE "-"

C13_RolesIndependent ==
  [][LET changed == {r \in Roles : Changed(r)}
     IN /\ \A r1, r2 \in changed : r1 = r2
        /\ Acting # "-" => \A r \in changed : r = Acting]_vars

C13_Witness ==
  /\ pc = "idle"
  /\ last["sink"] = "started"
  /\ status["sink"] = "Running"
  /\ Has(processes, "sink")
  /\ os[Get(processes, "sink")] = "alive"
  /\ ~termReq[Get(processes, "sink")]
  /\ last["source"] = "stop"
  /\ status["source"] = "Not Running"
  /\ Has(processes, "source")
  /\ killReq[Get(processes, "source")]

\* C15: whenever no start or stop is in progress, a role whose status is
\* "Running" has an entry in the registry whose process was started and has
\* not been seen to exit.
C15_RunningHasLiveEntry ==
  \A r \in Roles :
    (pc = "idle" /\ status[r] = "Running")
    => /\ Has(processes, r)
       /\ qstate[Get(processes, r)] = "Running"

\* C16: the exit notification of a process that a restart has replaced in
\* the registry does not change the status of its role while the newer
\* process is running.
C16_LateExitKeepsStatus ==
  [][\A p \in Procs :
       (/\ qstate[p] = "Running" /\ qstate'[p] = "NotRunning"
        /\ termReq[p]
        /\ Has(processes, pname[p])
        /\ Get(processes, pname[p]) # p
        /\ qstate[Get(processes, pname[p])] = "Running"
        /\ os[Get(processes, pname[p])] = "alive")
       => status'[pname[p]] = status[pname[p]]]_vars

\* C11: whichever way the application has ended, cleanup_on_exit has run
\* exactly once.
C11_CleanupExactlyOnce ==
  pc \in {"exited", "aborted"} => cleanups = 1

\* C14: the service-management command is run only for a service name that
\* matches the safe-name pattern and is in the allowed list, and starting it
\* touches no process; and run_command given None launches nothing, stops
\* nothing and leaves the registry unchanged.
C14_InvalidInputTouchesNothing ==
  [][/\ (systemctl = << >> /\ systemctl' # << >>)
          => /\ re_match(systemctl'[2])
             /\ systemctl'[2] \in allowed_services
             /\ UNCHANGED <<processes, status, nproc, pname, qstate, os, code,
                            termReq, killReq>>
     /\ (pc = "idle" /\ pc' = "start_return" /\ last'[cur'] = "invalid_cmd")
          => UNCHANGED <<processes, nproc, pname, qstate, os, code, termReq,
                         killReq>>]_vars

C14_Witness ==
  /\ pc = "manage_wait"
  /\ systemctl = <<"stop", NetworkManager>>
  /\ last["source"] = "invalid_cmd"
  /\ Has(processes, "source")
  /\ os[Get(processes, "source")] = "alive"
  /\ ~termReq[Get(processes, "source")]

====
